---- MODULE Spec2Model ----
(***************************************************************************)
(* The anti-inflammatory foods dashboard of src/app.py: a page script that *)
(* is re-run from the top on every widget interaction.  The widget values  *)
(* persist between runs; everything else is recomputed by the run.         *)
(*                                                                         *)
(* Text is a sequence of one-character strings, so that the regular        *)
(* expression search of the filter and the split/join of the daily score   *)
(* act on characters as the code does.  An icon is one element.            *)
(* Scores are integers in tenths (7.5 is 75).                              *)
(***************************************************************************)
EXTENDS Integers, Sequences, FiniteSets, TLC

VARIABLES
    frames,               \* the data frames by name: df, filtered_df, top_foods
    selected_regions,     \* value of the region multiselect
    selected_categories,  \* value of the category multiselect
    search_text,          \* value of the text input
    status,               \* outcome of the last run: "ok" or the exception raised
    avg_score,            \* the Avg Anti-Inflam Score card, in tenths
    now,                  \* the calendar date pd.Timestamp.now().date() returns
    pc,                   \* "start", "idle", or "loop" inside the button handler
    i,                    \* loop index of the handler's for i in range(7)
    plan,                 \* the plan dict: sequence of <<str(day), meals>>
    daily_scores          \* per day <<score_sum, len(foods_list)>>

vars == <<frames, selected_regions, selected_categories, search_text, status,
          avg_score, now, pc, i, plan, daily_scores>>

----------------------------------------------------------------------------
(* Bounds of the model *)

MaxQueryLen == 1
MaxTicks == 1

----------------------------------------------------------------------------
(* Text helpers *)

UPPER == <<"A","B","C","D","E","F","G","H","I","J","K","L","M",
           "N","O","P","Q","R","S","T","U","V","W","X","Y","Z">>
LOWER == <<"a","b","c","d","e","f","g","h","i","j","k","l","m",
           "n","o","p","q","r","s","t","u","v","w","x","y","z">>

Range(s) == {s[k] : k \in 1..Len(s)}

(* str.lower and str.upper on one character (ASCII letters) *)
LowerOf == [c \in Range(UPPER) |-> LOWER[CHOOSE k \in 1..Len(UPPER) : UPPER[k] = c]]
UpperOf == [c \in Range(LOWER) |-> UPPER[CHOOSE k \in 1..Len(LOWER) : LOWER[k] = c]]

Lower(c) == IF c \in DOMAIN LowerOf THEN LowerOf[c] ELSE c

Upper(c) == IF c \in DOMAIN UpperOf THEN UpperOf[c] ELSE c

SeqsUpTo(S, n) == UNION {[1..k -> S] : k \in 0..n}

(* Parentheses of a pattern: re.compile raises re.error on an unterminated *)
(* group or an unbalanced closing parenthesis.                             *)
RECURSIVE ParenOK(_, _)
ParenOK(pat, depth) ==
    IF pat = <<>> THEN depth = 0
    ELSE IF Head(pat) = "(" THEN ParenOK(Tail(pat), depth + 1)
    ELSE IF Head(pat) = ")" THEN depth > 0 /\ ParenOK(Tail(pat), depth - 1)
    ELSE ParenOK(Tail(pat), depth)

re_error(pat) == ~ParenOK(pat, 0)

(* The atoms of a compiled pattern: groups do not change what matches.     *)
Atoms(pat) == SelectSeq(pat, LAMBDA c : c \notin {"(", ")"})

(* One atom against one character under re.IGNORECASE: "." is any          *)
(* character, anything else is itself up to letter case.                   *)
MatchChar(p, c) == p = "." \/ Lower(p) = Lower(c)

(* re.compile(pat, re.IGNORECASE).search(x) is not None *)
re_search(pat, x) ==
    LET a == Atoms(pat) IN
    \E p \in 0..(Len(x) - Len(a)) :
        \A k \in 1..Len(a) : MatchChar(a[k], x[p + k])

(* Series.str.contains(pat, case=False, na=False), regex=True by default,  *)
(* for one non-missing value.                                              *)
str_contains(x, pat) == re_search(pat, x)

----------------------------------------------------------------------------
(* The static dataset food.df: columns Food, Category, Region, Anti_Inflam *)
(* and Notes, every value present.                                        *)

Txt_Yam   == <<"Y","a","m">>
Txt_Rice  == <<"R","i","c","e">>
Txt_Fish  == <<"F","i","s","h">>
Txt_Ugu   == <<"U","g","u">>
Txt_Lime  == <<"L","i","m","e">>
Txt_Egusi == <<"E","g","u","s","i">>

Row(f, c, r, a, n) ==
    [Food |-> f, Category |-> c, Region |-> r, Anti_Inflam |-> a, Notes |-> n]

DatasetA == <<
    Row(Txt_Yam,   "Carbohydrates", "South", 85, <<"F","i","b","r","e">>),
    Row(Txt_Rice,  "Carbohydrates", "North", 70, <<"O","f","a","d","a">>),
    Row(Txt_Lime,  "Fruits",        "South", 90, <<"V","i","t"," ","C">>),
    Row(Txt_Egusi, "Nuts & Seeds",  "North", 60, <<"S","e","e","d">>) >>

DatasetB == <<
    Row(Txt_Rice,  "Carbohydrates", "South", 70, <<"O","f","a","d","a">>),
    Row(Txt_Fish,  "Proteins",      "South", 95, <<"O","m","e","g","a">>),
    Row(Txt_Ugu,   "Vegetables",    "South", 80, <<"I","r","o","n">>),
    Row(Txt_Lime,  "Fruits",        "South", 90, <<"V","i","t"," ","C">>) >>

Datasets == {DatasetA, DatasetB}

QueryChars == {"r", "R", ".", "("}
Queries == SeqsUpTo(QueryChars, MaxQueryLen)

StartDate == <<2027, 12, 28>>

----------------------------------------------------------------------------
(* Sidebar and filter *)

category_icons(c) ==
    CASE c = "Carbohydrates"  -> "[bread]"
      [] c = "Proteins"       -> "[poultry]"
      [] c = "Vegetables"     -> "[broccoli]"
      [] c = "Fruits"         -> "[apple]"
      [] c = "Nuts & Seeds"   -> "[peanuts]"
      [] c = "Spices & Herbs" -> "[herb]"
      [] OTHER                -> "[plate]"

(* The options of the two multiselects (their display order is not modelled) *)
regions(d) == {d[k].Region : k \in 1..Len(d)}
categories(d) == {d[k].Category : k \in 1..Len(d)}

(* variant: the category test reads the region selection *)
FilterRows_WrongSelection(d, sr, sc, q) ==
    SelectSeq(d, LAMBDA r :
        /\ r.Region \in sr
        /\ r.Category \in sr
        /\ (str_contains(r.Food, q) \/ str_contains(r.Notes, q)))

FilterRows(d, sr, sc, q) ==
    SelectSeq(d, LAMBDA r :
        /\ r.Region \in sr
        /\ r.Category \in sc
        /\ (str_contains(r.Food, q) \/ str_contains(r.Notes, q)))

(* frame[col] = values: every row of the frame gets (or overwrites) col *)
SetItem(rows, col, values) ==
    [k \in 1..Len(rows) |->
        [c \in (DOMAIN rows[k]) \cup {col} |->
            IF c = col THEN values[k] ELSE rows[k][c]]]

HasColumn(rows, col) == \A k \in 1..Len(rows) : col \in DOMAIN rows[k]

(* The frame that receives the Icon column *)
(* variant: the Icon column is written to the source frame *)
IconFrame_Source == "df"

IconFrame == "filtered_df"

(* frame['Category'].map(category_icons).fillna(plate) *)
IconColumn(rows) == [k \in 1..Len(rows) |-> category_icons(rows[k].Category)]

----------------------------------------------------------------------------
(* Tab 1: metric cards *)

RECURSIVE SumScores(_)
SumScores(rows) ==
    IF rows = <<>> THEN 0 ELSE Head(rows).Anti_Inflam + SumScores(Tail(rows))

(* round(total / n, 1) in tenths: to the nearest tenth, a tie to the even one *)
(* variant: truncation instead of rounding *)
Round1_Truncate(total, n) == total \div n

Round1(total, n) ==
    LET q == total \div n
        r == total % n
    IN  IF 2 * r < n THEN q
        ELSE IF 2 * r > n THEN q + 1
        ELSE IF q % 2 = 0 THEN q ELSE q + 1

AvgScore(rows) ==
    IF Len(rows) # 0 THEN Round1(SumScores(rows), Len(rows)) ELSE 0

----------------------------------------------------------------------------
(* Tab 2: the top-10 table *)

TopN == 10

RECURSIVE InsertDesc(_, _)
InsertDesc(sorted, r) ==
    IF sorted = <<>> THEN <<r>>
    ELSE IF Head(sorted).Anti_Inflam >= r.Anti_Inflam
         THEN <<Head(sorted)>> \o InsertDesc(Tail(sorted), r)
         ELSE <<r>> \o sorted

RECURSIVE SortDesc(_)
SortDesc(rows) ==
    IF rows = <<>> THEN <<>>
    ELSE InsertDesc(SortDesc(SubSeq(rows, 1, Len(rows) - 1)), rows[Len(rows)])

head(rows, n) == SubSeq(rows, 1, IF Len(rows) < n THEN Len(rows) ELSE n)

TopFoods(rows) ==
    LET top == head(SortDesc(rows), TopN)
    IN  SetItem(top, "Food",
                [k \in 1..Len(top) |-> <<top[k].Icon, " ">> \o top[k].Food])

----------------------------------------------------------------------------
(* One run of the page script, lines 56-131 *)

RunFrames(fr, sr, sc, q) ==
    LET f1 == [fr EXCEPT !.filtered_df = FilterRows(fr.df, sr, sc, q)]
        f2 == [f1 EXCEPT ![IconFrame] = SetItem(f1[IconFrame], "Icon", IconColumn(f1[IconFrame]))]
    IN  IF re_error(q)
        THEN [fr EXCEPT !.filtered_df = <<>>, !.top_foods = <<>>]
        ELSE IF ~HasColumn(f2.filtered_df, "Icon")
        THEN [f2 EXCEPT !.top_foods = <<>>]
        ELSE [f2 EXCEPT !.top_foods = TopFoods(f2.filtered_df)]

RunStatus(fr, sr, sc, q) ==
    IF re_error(q) THEN "re.error"
    ELSE IF ~HasColumn(RunFrames(fr, sr, sc, q).filtered_df, "Icon")
    THEN "KeyError"
    ELSE "ok"

RunScript(sr, sc, q) ==
    /\ frames' = RunFrames(frames, sr, sc, q)
    /\ status' = RunStatus(frames, sr, sc, q)
    /\ avg_score' = IF status' = "ok" THEN AvgScore(frames'.filtered_df) ELSE 0
    /\ selected_regions' = sr
    /\ selected_categories' = sc
    /\ search_text' = q

----------------------------------------------------------------------------
(* Calendar dates <<year, month, day>>; str(day) is the ISO text of the    *)
(* same three fields, so a plan key is kept as the triple.                 *)

IsLeap(y) == (y % 4 = 0 /\ y % 100 # 0) \/ y % 400 = 0

DaysIn(y, m) ==
    IF m = 2 THEN (IF IsLeap(y) THEN 29 ELSE 28)
    ELSE IF m \in {4, 6, 9, 11} THEN 30 ELSE 31

NextDay(d) ==
    IF d[3] < DaysIn(d[1], d[2]) THEN <<d[1], d[2], d[3] + 1>>
    ELSE IF d[2] < 12 THEN <<d[1], d[2] + 1, 1>>
    ELSE <<d[1] + 1, 1, 1>>

(* date + pd.Timedelta(days=n) *)
RECURSIVE AddDays(_, _)
AddDays(d, n) == IF n = 0 THEN d ELSE AddDays(NextDay(d), n - 1)

----------------------------------------------------------------------------
(* Tab 3: generate_day_meal *)

Days == 7

IndexError == <<"IndexError">>

(* lf[lf['Category'] == c]['Food'].tolist() *)
(* variant: the foods are taken from the source dataset *)
CategoryFoods_Source(lf, c) ==
    LET sel == SelectSeq(frames.df, LAMBDA r : r.Category = c)
    IN  [k \in 1..Len(sel) |-> sel[k].Food]

CategoryFoods(lf, c) ==
    LET sel == SelectSeq(lf, LAMBDA r : r.Category = c)
    IN  [k \in 1..Len(sel) |-> sel[k].Food]

(* random.choice(xs): any element, IndexError on an empty list *)
random_choice(xs) == IF xs = <<>> THEN {IndexError} ELSE Range(xs)

PLUS == <<" ", "+", " ">>

(* the f-strings: icon, space, food, joined by " + " *)
Fmt1(c1, a) ==
    IF a = IndexError THEN IndexError
    ELSE <<category_icons(c1), " ">> \o a

Fmt2(c1, a, c2, b) ==
    IF IndexError \in {a, b} THEN IndexError
    ELSE Fmt1(c1, a) \o PLUS \o Fmt1(c2, b)

Fmt3(c1, a, c2, b, c3, c) ==
    IF IndexError \in {a, b, c} THEN IndexError
    ELSE Fmt2(c1, a, c2, b) \o PLUS \o Fmt1(c3, c)

meal_Breakfast(lf) ==
    LET carbs == CategoryFoods(lf, "Carbohydrates")
        fruits == CategoryFoods(lf, "Fruits")
    IN  IF carbs # <<>> /\ fruits # <<>>
        THEN {Fmt2("Carbohydrates", a, "Fruits", b) :
                 a \in random_choice(carbs), b \in random_choice(fruits)}
        ELSE {<<>>}

meal_Lunch(lf) ==
    LET carbs == CategoryFoods(lf, "Carbohydrates")
        proteins == CategoryFoods(lf, "Proteins")
        vegs == CategoryFoods(lf, "Vegetables")
    IN  IF carbs # <<>> /\ proteins # <<>> /\ vegs # <<>>
        THEN {Fmt3("Carbohydrates", a, "Proteins", b, "Vegetables", c) :
                 a \in random_choice(carbs), b \in random_choice(proteins),
                 c \in random_choice(vegs)}
        ELSE {<<>>}

meal_Dinner(lf) ==
    LET carbs == CategoryFoods(lf, "Carbohydrates")
        proteins == CategoryFoods(lf, "Proteins")
        vegs == CategoryFoods(lf, "Vegetables")
    IN  IF carbs # <<>> /\ proteins # <<>> /\ vegs # <<>>
        THEN {Fmt3("Carbohydrates", a, "Proteins", b, "Vegetables", c) :
                 a \in random_choice(carbs), b \in random_choice(proteins),
                 c \in random_choice(vegs)}
        ELSE {<<>>}

(* variant: the snack draws without testing that there is a fruit *)
meal_Snack_NoGuard(lf) ==
    {Fmt1("Fruits", b) : b \in random_choice(CategoryFoods(lf, "Fruits"))}

meal_Snack(lf) ==
    LET fruits == CategoryFoods(lf, "Fruits")
    IN  IF fruits # <<>>
        THEN {Fmt1("Fruits", b) : b \in random_choice(fruits)}
        ELSE {<<>>}

(* every day the four draws can produce *)
generate_day_meal(lf) ==
    {[Breakfast |-> b, Lunch |-> l, Dinner |-> d, Snack |-> s] :
        b \in meal_Breakfast(lf), l \in meal_Lunch(lf),
        d \in meal_Dinner(lf), s \in meal_Snack(lf)}

Slots == <<"Breakfast", "Lunch", "Dinner", "Snack">>

Raises(day) == \E k \in 1..Len(Slots) : day[Slots[k]] = IndexError

(* plan[key] = value on a dict that keeps insertion order *)
DictSet(d, key, value) ==
    IF \E k \in 1..Len(d) : d[k][1] = key
    THEN [k \in 1..Len(d) |-> IF d[k][1] = key THEN <<key, value>> ELSE d[k]]
    ELSE Append(d, <<key, value>>)

----------------------------------------------------------------------------
(* Tab 3: the daily score, lines 162-166 *)

(* v.split(' ', 1)[1] *)
RECURSIVE AfterFirstSpace(_)
AfterFirstSpace(v) ==
    IF v = <<>> THEN IndexError
    ELSE IF Head(v) = " " THEN Tail(v)
    ELSE AfterFirstSpace(Tail(v))

(* sep.join(parts) *)
RECURSIVE Join(_, _)
Join(parts, sep) ==
    IF parts = <<>> THEN <<>>
    ELSE IF Len(parts) = 1 THEN parts[1]
    ELSE parts[1] \o sep \o Join(Tail(parts), sep)

IsPrefix(pre, s) == Len(pre) <= Len(s) /\ SubSeq(s, 1, Len(pre)) = pre

(* s.split(sep): the empty text splits into one empty part *)
RECURSIVE SplitAcc(_, _, _)
SplitAcc(s, sep, cur) ==
    IF s = <<>> THEN <<cur>>
    ELSE IF IsPrefix(sep, s)
         THEN <<cur>> \o SplitAcc(SubSeq(s, Len(sep) + 1, Len(s)), sep, <<>>)
         ELSE SplitAcc(Tail(s), sep, Append(cur, Head(s)))

Split(s, sep) == SplitAcc(s, sep, <<>>)

DayValues(day) == [k \in 1..Len(Slots) |-> day[Slots[k]]]

foods_list(day) ==
    LET nonblank == SelectSeq(DayValues(day), LAMBDA v : v # <<>>)
        parts == [k \in 1..Len(nonblank) |-> AfterFirstSpace(nonblank[k])]
    IN  Split(Join(parts, PLUS), PLUS)

(* filtered_df[filtered_df['Food'].isin(foods)]['Anti_Inflam'].sum() *)
score_sum(lf, foods) ==
    SumScores(SelectSeq(lf, LAMBDA r : r.Food \in Range(foods)))

(* score_sum / len(foods_list) as <<numerator, denominator>>, 0 as <<0, 1>> *)
DailyScore(lf, day) ==
    LET fl == foods_list(day)
    IN  IF fl # <<>> THEN <<score_sum(lf, fl), Len(fl)>> ELSE <<0, 1>>

----------------------------------------------------------------------------
(* State machine *)

TypeOK ==
    /\ pc \in {"start", "idle", "loop"}
    /\ i \in 0..Days
    /\ status \in {"ok", "re.error", "KeyError", "IndexError"}

(* The process has imported food.df (line 5); no run of the page yet.  The *)
(* widgets are at their defaults, default=regions and default=categories.  *)
Init ==
    /\ \E d \in Datasets :
        /\ frames = [df |-> d, filtered_df |-> <<>>, top_foods |-> <<>>]
        /\ selected_regions = regions(d)
        /\ selected_categories = categories(d)
    /\ search_text = <<>>
    /\ status = "ok"
    /\ avg_score = 0
    /\ now = StartDate
    /\ pc = "start"
    /\ i = 0
    /\ plan = <<>>
    /\ daily_scores = <<>>

(* The first run of the page *)
FirstRun ==
    /\ pc = "start"
    /\ RunScript(regions(frames.df), categories(frames.df), <<>>)
    /\ pc' = "idle"
    /\ UNCHANGED <<now, i, plan, daily_scores>>

(* A run in which the button is not pressed shows no plan *)
Rerun(sr, sc, q) ==
    /\ pc = "idle"
    /\ RunScript(sr, sc, q)
    /\ plan' = <<>>
    /\ daily_scores' = <<>>
    /\ UNCHANGED <<now, pc, i>>

SelectRegions ==
    \E sr \in SUBSET regions(frames.df) :
        /\ sr # selected_regions
        /\ Rerun(sr, selected_categories, search_text)

SelectCategories ==
    \E sc \in SUBSET categories(frames.df) :
        /\ sc # selected_categories
        /\ Rerun(selected_regions, sc, search_text)

TypeSearch ==
    \E q \in Queries :
        /\ q # search_text
        /\ Rerun(selected_regions, selected_categories, q)

(* The button: the script runs again and, if it gets to line 152, enters   *)
(* the handler with an empty plan.                                         *)
ClickGenerate ==
    /\ pc = "idle"
    /\ RunScript(selected_regions, selected_categories, search_text)
    /\ plan' = <<>>
    /\ daily_scores' = <<>>
    /\ i' = 0
    /\ pc' = IF status' = "ok" THEN "loop" ELSE "idle"
    /\ UNCHANGED now

(* One iteration of for i in range(7), lines 155-156 *)
LoopStep ==
    /\ pc = "loop"
    /\ i < Days
    /\ \E day \in generate_day_meal(frames.filtered_df) :
        IF Raises(day)
        THEN /\ status' = "IndexError"
             /\ pc' = "idle"
             /\ UNCHANGED <<plan, i>>
        ELSE /\ plan' = DictSet(plan, AddDays(now, i), day)
             /\ i' = i + 1
             /\ UNCHANGED <<status, pc>>
    /\ UNCHANGED <<frames, selected_regions, selected_categories, search_text,
                   avg_score, now, daily_scores>>

(* Lines 158-167: the plan table and the daily scores *)
ShowPlan ==
    /\ pc = "loop"
    /\ i = Days
    /\ daily_scores' =
           [k \in 1..Len(plan) |-> DailyScore(frames.filtered_df, plan[k][2])]
    /\ pc' = "idle"
    /\ UNCHANGED <<frames, selected_regions, selected_categories, search_text,
                   status, avg_score, now, i, plan>>

(* Midnight passes *)
Tick ==
    /\ \E k \in 0..(MaxTicks - 1) : now = AddDays(StartDate, k)
    /\ now' = NextDay(now)
    /\ UNCHANGED <<frames, selected_regions, selected_categories, search_text,
                   status, avg_score, pc, i, plan, daily_scores>>

Next ==
    \/ FirstRun
    \/ SelectRegions
    \/ SelectCategories
    \/ TypeSearch
    \/ ClickGenerate
    \/ LoopStep
    \/ ShowPlan
    \/ Tick

Spec == Init /\ [][Next]_vars

----------------------------------------------------------------------------
(* Helpers of the properties *)

filtered_df == frames.filtered_df

(* the rows of a frame restricted to the columns of the dataset *)
BaseRows(rows) ==
    [k \in 1..Len(rows) |->
        Row(rows[k].Food, rows[k].Category, rows[k].Region,
            rows[k].Anti_Inflam, rows[k].Notes)]

(* q occurs in x as a substring, letter case ignored *)
HasSubstring(x, q) ==
    \E p \in 0..(Len(x) - Len(q)) :
        \A k \in 1..Len(q) : Lower(q[k]) = Lower(x[p + k])

SwapCase(x) ==
    [k \in 1..Len(x) |-> IF Lower(x[k]) = x[k] THEN Upper(x[k]) ELSE Lower(x[k])]

SwapCaseRows(rows) ==
    [k \in 1..Len(rows) |->
        [rows[k] EXCEPT !.Food = SwapCase(@), !.Notes = SwapCase(@)]]

(* positions of the rows of d that the filter keeps *)
Kept(d, sr, sc, q) ==
    {k \in 1..Len(d) : FilterRows(<<d[k]>>, sr, sc, q) # <<>>}

CatNames(lf, c) == {lf[k].Food : k \in {j \in 1..Len(lf) : lf[j].Category = c}}

SlotSpec ==
    [Breakfast |-> <<"Carbohydrates", "Fruits">>,
     Lunch     |-> <<"Carbohydrates", "Proteins", "Vegetables">>,
     Dinner    |-> <<"Carbohydrates", "Proteins", "Vegetables">>,
     Snack     |-> <<"Fruits">>]

SlotNames == {"Breakfast", "Lunch", "Dinner", "Snack"}

(* the food names a slot text shows, in order *)
NamesIn(slot) ==
    IF slot = <<>> THEN <<>>
    ELSE LET parts == Split(slot, PLUS)
         IN  [k \in 1..Len(parts) |-> AfterFirstSpace(parts[k])]

ChosenFoods(day) ==
    NamesIn(day.Breakfast) \o NamesIn(day.Lunch) \o
    NamesIn(day.Dinner) \o NamesIn(day.Snack)

ScoreOf(lf, name) ==
    (CHOOSE r \in Range(lf) : r.Food = name).Anti_Inflam

RECURSIVE TotalOf(_, _)
TotalOf(lf, names) ==
    IF names = <<>> THEN 0
    ELSE ScoreOf(lf, Head(names)) + TotalOf(lf, Tail(names))

PlanDone == pc = "idle" /\ Len(daily_scores) > 0

----------------------------------------------------------------------------
(* C1: after a run that raised nothing, the filtered set is exactly the    *)
(* rows whose Region and Category are selected and whose Food or Notes     *)
(* contains the query as a case-insensitive substring.                     *)
C1_FilterIsSubstringMatch ==
    (pc # "start" /\ status = "ok") =>
        BaseRows(filtered_df) =
            SelectSeq(frames.df, LAMBDA r :
                /\ r.Region \in selected_regions
                /\ r.Category \in selected_categories
                /\ (HasSubstring(r.Food, search_text)
                    \/ HasSubstring(r.Notes, search_text)))

(* C3: with no region selected, or no category selected, the run raises    *)
(* nothing and the filtered set is empty, whatever the query.              *)
C3_EmptySelectionRenders ==
    (pc # "start" /\ (selected_regions = {} \/ selected_categories = {})) =>
        (status = "ok" /\ Len(filtered_df) = 0)

(* C4: swapping the letter case of the query, or of the Food and Notes     *)
(* text, keeps the same rows; a query that is a substring of no Food and   *)
(* no Notes gives zero rows.                                               *)
C4_CaseInsensitiveExclusive ==
    (pc # "start" /\ status = "ok") =>
        /\ Kept(frames.df, selected_regions, selected_categories,
                SwapCase(search_text))
             = Kept(frames.df, selected_regions, selected_categories, search_text)
        /\ Kept(SwapCaseRows(frames.df), selected_regions, selected_categories,
                search_text)
             = Kept(frames.df, selected_regions, selected_categories, search_text)
        /\ (\A k \in 1..Len(frames.df) :
                /\ ~HasSubstring(frames.df[k].Food, search_text)
                /\ ~HasSubstring(frames.df[k].Notes, search_text))
            => Len(filtered_df) = 0

(* C5: each day's score is the mean of the scores of the foods chosen that *)
(* day, one term per occurrence, and 0 when no food was chosen.            *)
C5_DailyScoreIsMean ==
    \A k \in 1..Len(daily_scores) :
        LET chosen == ChosenFoods(plan[k][2])
            num == daily_scores[k][1]
            den == daily_scores[k][2]
        IN  IF chosen = <<>> THEN num = 0
            ELSE num * Len(chosen) = den * TotalOf(filtered_df, chosen)

(* C6: a finished plan has 7 entries, each one calendar day after the      *)
(* previous one.                                                           *)
C6_SevenConsecutiveDates ==
    PlanDone =>
        /\ Len(plan) = 7
        /\ \A k \in 1..(Len(plan) - 1) : plan[k + 1][1] = NextDay(plan[k][1])

----------------------------------------------------------------------------
(* C2: with every offered region and category selected and an empty query  *)
(* the filtered set is the whole dataset: Shown Foods equals Total Foods.  *)
C2_DefaultsShowAll ==
    (/\ pc # "start"
     /\ selected_regions = regions(frames.df)
     /\ selected_categories = categories(frames.df)
     /\ search_text = <<>>) =>
        /\ status = "ok"
        /\ BaseRows(filtered_df) = frames.df
        /\ Len(filtered_df) = Len(frames.df)

(* a plan generated under the default selections *)
C2_Witness ==
    /\ PlanDone
    /\ selected_regions = regions(frames.df)
    /\ selected_categories = categories(frames.df)
    /\ search_text = <<>>
    /\ Len(filtered_df) = Len(frames.df)

(* C7: generating never raises; a slot is blank exactly when one of its    *)
(* categories has no food in the filtered set, and no draw is ever made    *)
(* from an empty list.                                                     *)
C7_BlankIffCategoryMissing ==
    /\ status # "IndexError"
    /\ (pc = "loop" \/ Len(plan) > 0) => status = "ok"
    /\ pc = "loop" => \A day \in generate_day_meal(filtered_df) : ~Raises(day)
    /\ \A k \in 1..Len(plan) : \A slot \in SlotNames :
          (plan[k][2][slot] = <<>>) <=>
              (\E j \in 1..Len(SlotSpec[slot]) :
                  CatNames(filtered_df, SlotSpec[slot][j]) = {})

(* a finished plan with a breakfast and a snack but no lunch *)
C7_Witness ==
    /\ PlanDone
    /\ Len(plan) = Days
    /\ plan[1][2].Breakfast # <<>>
    /\ plan[1][2].Lunch = <<>>
    /\ plan[1][2].Snack # <<>>

(* C8: the average card is 0 for an empty filtered set and otherwise the   *)
(* mean score to the nearest tenth; computing it raises nothing.           *)
C8_AvgCard ==
    (pc # "start" /\ status = "ok") =>
        LET n == Len(filtered_df)
            total == TotalOf(filtered_df,
                             [k \in 1..n |-> filtered_df[k].Food])
            diff == avg_score * n - total
        IN  /\ avg_score \in Nat
            /\ n = 0 => avg_score = 0
            /\ n > 0 => (2 * diff <= n /\ 2 * diff >= 0 - n)

(* an empty filtered set after the regions were all deselected *)
C8_Witness ==
    /\ pc = "idle"
    /\ status = "ok"
    /\ selected_regions = {}
    /\ Len(filtered_df) = 0
    /\ avg_score = 0

(* C9: no step changes the source dataset: rows, columns and values.       *)
C9_SourceUnchanged == [][frames'.df = frames.df]_vars

(* the derived frames carry the Icon column and the rewritten names, the   *)
(* source does not                                                         *)
C9_Witness ==
    /\ PlanDone
    /\ Len(filtered_df) > 0
    /\ HasColumn(filtered_df, "Icon")
    /\ Len(frames.top_foods) > 0
    /\ frames.top_foods[1].Food \notin {frames.df[k].Food : k \in 1..Len(frames.df)}
    /\ frames.df \in Datasets

(* C10: a non-blank slot names foods of the filtered set only, one per     *)
(* category of the slot and in the slot's order; in the handler every food *)
(* of the right category can be drawn for its position.                    *)
C10_PlanFoodsFromFilteredSet ==
    /\ \A k \in 1..Len(plan) : \A slot \in SlotNames :
          LET names == NamesIn(plan[k][2][slot])
          IN  names # <<>> =>
                /\ Len(names) = Len(SlotSpec[slot])
                /\ \A j \in 1..Len(names) :
                      names[j] \in CatNames(filtered_df, SlotSpec[slot][j])
    /\ (pc = "loop" /\ i < Days) =>
          \A slot \in SlotNames :
            (\A j \in 1..Len(SlotSpec[slot]) :
                CatNames(filtered_df, SlotSpec[slot][j]) # {}) =>
              \A j \in 1..Len(SlotSpec[slot]) :
                \A f \in CatNames(filtered_df, SlotSpec[slot][j]) :
                  \E day \in generate_day_meal(filtered_df) :
                      NamesIn(day[slot])[j] = f

(* a finished plan over a filtered set that leaves rows of the dataset out *)
C10_Witness ==
    /\ PlanDone
    /\ Len(plan) = Days
    /\ Len(filtered_df) < Len(frames.df)
    /\ \E k \in 1..Len(plan) : plan[k][2].Breakfast # plan[1][2].Breakfast

====
